---- MODULE Spec2Model ----
(***************************************************************************)
(* State-machine model of image_processor.py: main() and process_image()   *)
(* with the working directory's files and the two HTTP calls.              *)
(*                                                                         *)
(* A Python string is a sequence of atoms.  An atom is one character       *)
(* ("/", ".", "p", ...) or a run of characters that no operation of the    *)
(* program looks inside ("temp", "_no_bg", "processed_images"), so         *)
(* startswith, endswith, os.path.join and path resolution are computed     *)
(* exactly on the strings that the atoms spell.                            *)
(***************************************************************************)
EXTENDS Integers, Sequences, FiniteSets, TLC

VARIABLES argv, pc, newName, image, fs, exc, stdout, exitCode, calls, net, writes

vars == <<argv, pc, newName, image, fs, exc, stdout, exitCode, calls, net, writes>>

(* The invocations that may run from the one working directory. *)
Runs == {"A", "B"}

(***************************************************************************)
(* Bounds of the model.                                                    *)
(***************************************************************************)
MaxLocLen == 4
MaxNameLen == 5
MaxArgs == 3

(***************************************************************************)
(* Strings.                                                                *)
(***************************************************************************)
SeqsUpTo(S, n) == UNION {[1..k -> S] : k \in 0..n}

(* str.startswith *)
StartsWith(s, pre) == Len(s) >= Len(pre) /\ SubSeq(s, 1, Len(pre)) = pre

(* str.endswith *)
EndsWith(s, suf) ==
    Len(s) >= Len(suf) /\ SubSeq(s, Len(s) - Len(suf) + 1, Len(s)) = suf

HTTP == <<"h", "t", "t", "p">>
PNG == <<".", "p", "n", "g">>
SEP == <<"/">>
PROCESSED_IMAGES == <<"processed_images">>
TEMP_PNG == <<"temp">> \o PNG
TEMP_NO_BG_PNG == <<"temp", "_no_bg">> \o PNG
USAGE == "Usage: python image_processor.py <image_url> <new_name>"

IsRemote_Htt(url) == StartsWith(url, <<"h", "t", "t">>)

(* url.startswith('http'), line 83 *)
IsRemote(url) == StartsWith(url, HTTP)

EnsurePng_Always(name) == name \o PNG

(* if not new_name.endswith('.png'): new_name += '.png', lines 124-125 *)
EnsurePng(name) == IF ~EndsWith(name, PNG) THEN name \o PNG ELSE name

(* os.path.join(a, b) for two arguments (posix) *)
PathJoin(a, b) ==
    IF StartsWith(b, SEP) THEN b
    ELSE IF a = <<>> \/ EndsWith(a, SEP) THEN a \o b
    ELSE a \o SEP \o b

(* The output path main() hands to process_image, lines 124-126 *)
OutputPath(name) == PathJoin(PROCESSED_IMAGES, EnsurePng(name))

(***************************************************************************)
(* Files.  A path names a location: whether it is absolute, and its        *)
(* components after "." and ".." are resolved against the working          *)
(* directory (symbolic links are not modelled).                            *)
(***************************************************************************)
RECURSIVE Components(_)
Components(s) ==
    IF s = <<>> THEN <<>>
    ELSE IF Head(s) = "/" THEN Components(Tail(s))
    ELSE LET n == CHOOSE k \in 1..Len(s) :
                     /\ \A i \in 1..k : s[i] # "/"
                     /\ (k = Len(s) \/ s[k + 1] = "/")
         IN  <<SubSeq(s, 1, n)>> \o Components(SubSeq(s, n + 1, Len(s)))

RECURSIVE Resolve(_, _, _)
Resolve(abs, done, todo) ==
    IF todo = <<>> THEN done
    ELSE LET c == Head(todo)
             rest == Tail(todo)
         IN  IF c = <<".">> THEN Resolve(abs, done, rest)
             ELSE IF c = <<".", ".">>
                  THEN IF done # <<>> /\ done[Len(done)] # <<".", ".">>
                       THEN Resolve(abs, SubSeq(done, 1, Len(done) - 1), rest)
                       ELSE IF abs THEN Resolve(abs, done, rest)
                       ELSE Resolve(abs, Append(done, c), rest)
             ELSE Resolve(abs, Append(done, c), rest)

(* The file a path string opens *)
Loc(path) ==
    [abs |-> StartsWith(path, SEP),
     comps |-> Resolve(StartsWith(path, SEP), <<>>, Components(path))]

TempLocs == {Loc(TEMP_PNG), Loc(TEMP_NO_BG_PNG)}

(* image.save(path) / open(path, 'wb') *)
FsWrite(f, loc, img) ==
    [p \in DOMAIN f \cup {loc} |-> IF p = loc THEN img ELSE f[p]]

FsRemove_Keep(f, loc) == f

(* os.remove(path) *)
FsRemove(f, loc) == [p \in DOMAIN f \ {loc} |-> f[p]]

(***************************************************************************)
(* Images: where the pixels came from, the mode, the effects applied.      *)
(***************************************************************************)
Modes == {"RGB", "RGBA"}
NoImage == [src |-> <<>>, mode |-> "", fx |-> <<>>]
StaleImage == [src |-> <<"stale">>, mode |-> "RGBA", fx |-> <<>>]

(* Image.open(...) of the bytes found at `src` *)
Decoded(src, mode) == [src |-> src, mode |-> mode, fx |-> <<>>]

(* convert_to_png, lines 20-22 *)
convert_to_png(img) == [img EXCEPT !.mode = "RGBA"]

(* The image remove.bg answers with for an uploaded image *)
BgRemoved(uploaded, mode) ==
    [src |-> uploaded.src, mode |-> mode, fx |-> Append(uploaded.fx, "nobg")]

(* add_white_outline, lines 40-72: np_image[:, :, 3] needs the alpha channel *)
CanOutline(img) == img.mode = "RGBA"
add_white_outline(img) == [img EXCEPT !.fx = Append(img.fx, "outline")]

(***************************************************************************)
(* Exceptions.  args holds Python values tagged with their type.           *)
(***************************************************************************)
PyStr(s) == <<"str", s>>
PyInt(n) == <<"int", n>>
NoExc == [type |-> "", origin |-> "", args |-> <<>>]
Exc(type, origin, args) == [type |-> type, origin |-> origin, args |-> args]

(* raise Exception('Image could not be retrieved'), line 17 *)
RetrievalExc(status) ==
    Exc("Exception", "download_image", <<PyStr("Image could not be retrieved")>>)

BgExc_NoBody(status, text) ==
    Exc("Exception", "remove_background", <<PyStr("Error:"), PyInt(status)>>)

(* raise Exception('Error:', response.status_code, response.text), line 37 *)
BgExc(status, text) ==
    Exc("Exception", "remove_background",
        <<PyStr("Error:"), PyInt(status), PyStr(text)>>)

(***************************************************************************)
(* The environment: what the servers and the disk may answer.              *)
(***************************************************************************)
HttpStatuses == {200, 204, 403, 404}
ErrorTexts == {"", "{\"errors\": []}"}
ImageBytes == "<image bytes>"

GetOk_Below300(status) == status < 300

(* response.status_code == 200, line 13 *)
GetOk(status) == status = 200

(* response.status_code == requests.codes.ok, line 33 *)
PostOk(status) == status = 200

ArgCountOk_AtLeast(args) == Len(args) >= 3

(* not (len(sys.argv) != 3), line 115 *)
ArgCountOk(args) == ~(Len(args) # 3)

(***************************************************************************)
(* Steps of one run r.                                                     *)
(***************************************************************************)
Url(r) == argv[r][2]

Call(r, f) == calls' = [calls EXCEPT ![r] = Append(@, f)]

Raise_Retry(r, e) == UNCHANGED <<pc, exc, exitCode>>

(* An exception nothing catches ends the run: traceback, exit status 1 *)
Raise(r, e) ==
    /\ pc' = [pc EXCEPT ![r] = "error"]
    /\ exc' = [exc EXCEPT ![r] = e]
    /\ exitCode' = [exitCode EXCEPT ![r] = <<1>>]

Goto(r, next) ==
    /\ pc' = [pc EXCEPT ![r] = next]
    /\ UNCHANGED <<exc, exitCode>>

Save(r, path, img, what) ==
    /\ fs' = FsWrite(fs, Loc(path), img)
    /\ writes' = [writes EXCEPT
                    ![r] = Append(@, [loc |-> Loc(path), img |-> img, what |-> what])]

(* main, lines 113-126: the usage check and the output name *)
Main(r) ==
    /\ pc[r] = "main"
    /\ IF ~ArgCountOk(argv[r])
       THEN /\ stdout' = [stdout EXCEPT ![r] = Append(@, [text |-> USAGE, arg |-> <<>>])]
            /\ exitCode' = [exitCode EXCEPT ![r] = <<1>>]
            /\ pc' = [pc EXCEPT ![r] = "exit"]
            /\ UNCHANGED newName
       ELSE /\ newName' = [newName EXCEPT ![r] = OutputPath(argv[r][3])]
            /\ pc' = [pc EXCEPT ![r] = "resolve"]
            /\ UNCHANGED <<stdout, exitCode>>
    /\ UNCHANGED <<argv, image, fs, exc, calls, net, writes>>

(* process_image line 84 and download_image, lines 11-17 *)
Download(r) ==
    /\ pc[r] = "resolve"
    /\ IsRemote(Url(r))
    /\ Call(r, "download_image")
    /\ \E status \in HttpStatuses :
         /\ net' = [net EXCEPT ![r] = Append(@,
                       [method |-> "GET", status |-> status,
                        text |-> IF GetOk(status) THEN ImageBytes ELSE "",
                        upload |-> NoImage])]
         /\ IF GetOk(status)
            THEN \E decodable \in BOOLEAN, mode \in Modes :
                   IF decodable
                   THEN /\ image' = [image EXCEPT ![r] = Decoded(Url(r), mode)]
                        /\ Goto(r, "convert")
                   ELSE /\ Raise(r, Exc("UnidentifiedImageError", "download_image", <<>>))
                        /\ UNCHANGED image
            ELSE /\ Raise(r, RetrievalExc(status))
                 /\ UNCHANGED image
    /\ UNCHANGED <<argv, newName, fs, stdout, writes>>

(* process_image line 86: Image.open(url) of a local path *)
OpenLocal(r) ==
    /\ pc[r] = "resolve"
    /\ ~IsRemote(Url(r))
    /\ Call(r, "Image.open")
    /\ \E readable \in BOOLEAN, mode \in Modes :
         IF readable
         THEN /\ image' = [image EXCEPT ![r] = Decoded(Url(r), mode)]
              /\ Goto(r, "convert")
         ELSE /\ Raise(r, Exc("OSError", "Image.open", <<>>))
              /\ UNCHANGED image
    /\ UNCHANGED <<argv, newName, fs, stdout, net, writes>>

(* process_image lines 89-90: convert_to_png, then save temp.png *)
Normalize(r) ==
    /\ pc[r] = "convert"
    /\ Call(r, "convert_to_png")
    /\ image' = [image EXCEPT ![r] = convert_to_png(@)]
    /\ \E ok \in BOOLEAN :
         IF ok
         THEN /\ Save(r, TEMP_PNG, image'[r], "temp")
              /\ Goto(r, "removebg")
         ELSE /\ Raise(r, Exc("OSError", "save temp.png", <<>>))
              /\ UNCHANGED <<fs, writes>>
    /\ UNCHANGED <<argv, newName, stdout, net>>

(* process_image line 93 and remove_background, lines 25-37 *)
RemoveBackground(r) ==
    /\ pc[r] = "removebg"
    /\ Call(r, "remove_background")
    /\ IF Loc(TEMP_PNG) \notin DOMAIN fs
       THEN /\ Raise(r, Exc("FileNotFoundError", "open temp.png", <<>>))
            /\ UNCHANGED <<image, net>>
       ELSE \E status \in HttpStatuses :
              IF PostOk(status)
              THEN /\ net' = [net EXCEPT ![r] = Append(@,
                                [method |-> "POST", status |-> status,
                                 text |-> ImageBytes, upload |-> fs[Loc(TEMP_PNG)]])]
                   /\ \E decodable \in BOOLEAN, mode \in Modes :
                        IF decodable
                        THEN /\ image' = [image EXCEPT
                                            ![r] = BgRemoved(fs[Loc(TEMP_PNG)], mode)]
                             /\ Goto(r, "save_nobg")
                        ELSE /\ Raise(r, Exc("UnidentifiedImageError",
                                             "remove_background", <<>>))
                             /\ UNCHANGED image
              ELSE \E text \in ErrorTexts :
                     /\ net' = [net EXCEPT ![r] = Append(@,
                                  [method |-> "POST", status |-> status,
                                   text |-> text, upload |-> fs[Loc(TEMP_PNG)]])]
                     /\ Raise(r, BgExc(status, text))
                     /\ UNCHANGED image
    /\ UNCHANGED <<argv, newName, fs, stdout, writes>>

(* process_image line 94: save temp_no_bg.png *)
SaveNoBg(r) ==
    /\ pc[r] = "save_nobg"
    /\ \E ok \in BOOLEAN :
         IF ok
         THEN /\ Save(r, TEMP_NO_BG_PNG, image[r], "nobg")
              /\ Goto(r, "outline")
         ELSE /\ Raise(r, Exc("OSError", "save temp_no_bg.png", <<>>))
              /\ UNCHANGED <<fs, writes>>
    /\ UNCHANGED <<argv, newName, image, stdout, calls, net>>

(* process_image line 97: add_white_outline of the in-memory image *)
Outline(r) ==
    /\ pc[r] = "outline"
    /\ Call(r, "add_white_outline")
    /\ IF CanOutline(image[r])
       THEN /\ image' = [image EXCEPT ![r] = add_white_outline(@)]
            /\ Goto(r, "rename")
       ELSE /\ Raise(r, Exc("IndexError", "add_white_outline", <<>>))
            /\ UNCHANGED image
    /\ UNCHANGED <<argv, newName, fs, stdout, net, writes>>

(* process_image lines 100-101: rename_image (lines 75-76), then print *)
Rename(r) ==
    /\ pc[r] = "rename"
    /\ Call(r, "rename_image")
    /\ \E ok \in BOOLEAN :
         IF ok
         THEN /\ Save(r, newName[r], image[r], "output")
              /\ stdout' = [stdout EXCEPT
                              ![r] = Append(@, [text |-> "Image saved as", arg |-> newName[r]])]
              /\ Goto(r, "rm_temp")
         ELSE /\ Raise(r, Exc("OSError", "rename_image", <<>>))
              /\ UNCHANGED <<fs, writes, stdout>>
    /\ UNCHANGED <<argv, newName, image, net>>

Unlink(r, path, next) ==
    IF Loc(path) \in DOMAIN fs
    THEN /\ fs' = FsRemove(fs, Loc(path))
         /\ pc' = [pc EXCEPT ![r] = next]
         /\ exitCode' = [exitCode EXCEPT ![r] = IF next = "done" THEN <<0>> ELSE @]
         /\ UNCHANGED exc
    ELSE /\ Raise(r, Exc("FileNotFoundError", "os.remove", <<>>))
         /\ UNCHANGED fs

(* process_image line 104: os.remove('temp.png') *)
RemoveTemp(r) ==
    /\ pc[r] = "rm_temp"
    /\ Unlink(r, TEMP_PNG, "rm_nobg")
    /\ UNCHANGED <<argv, newName, image, stdout, calls, net, writes>>

(* process_image line 105: os.remove('temp_no_bg.png'), then the run ends *)
RemoveNoBg(r) ==
    /\ pc[r] = "rm_nobg"
    /\ Unlink(r, TEMP_NO_BG_PNG, "done")
    /\ UNCHANGED <<argv, newName, image, stdout, calls, net, writes>>

Next ==
    \E r \in Runs :
        \/ Main(r)
        \/ Download(r)
        \/ OpenLocal(r)
        \/ Normalize(r)
        \/ RemoveBackground(r)
        \/ SaveNoBg(r)
        \/ Outline(r)
        \/ Rename(r)
        \/ RemoveTemp(r)
        \/ RemoveNoBg(r)

(***************************************************************************)
(* Command lines and initial states.                                       *)
(***************************************************************************)
SCRIPT == <<"image_processor.py">>
Locations == SeqsUpTo({"h", "t", "p"}, MaxLocLen) \ {<<>>}
Names == SeqsUpTo({"/", ".", "p", "n", "g"}, MaxNameLen)
SampleLocations == {HTTP, <<"t">>}
SampleNames ==
    {<<"g">>, <<"g">> \o PNG, <<"/", "g">>, <<".", ".", "/", "g">>,
     <<".", ".", "/", "temp">>, <<"g", "/", ".", ".", "/", "p">>}
ParLocations == {HTTP, <<"t">>, <<"p">>}
ParNames == {<<"g">>, <<"p">>}

Extra(k) == [i \in 1..k |-> <<"x">>]

ArgvSet(locs, names) ==
    {<<SCRIPT>>} \cup {<<SCRIPT, u>> : u \in locs}
    \cup {<<SCRIPT, u, n>> \o Extra(k) : u \in locs, n \in names, k \in 0..(MaxArgs - 2)}

(* sys.argv of a lone invocation A *)
Alone(locs, names) ==
    {[r \in Runs |-> IF r = "A" THEN a ELSE <<>>] : a \in ArgvSet(locs, names)}

(* sys.argv of two invocations with different inputs and different names *)
Different(a, b) ==
    /\ (Len(a) >= 2 /\ Len(b) >= 2 => a[2] # b[2])
    /\ (Len(a) >= 3 /\ Len(b) >= 3 => a[3] # b[3])

Together(locs, names) ==
    {[r \in Runs |-> IF r = "A" THEN ab[1] ELSE ab[2]] :
        ab \in {x \in ArgvSet(locs, names) \X ArgvSet(locs, names) : Different(x[1], x[2])}}

InitWith(argvs, stales) ==
    /\ argv \in argvs
    /\ pc = [r \in Runs |-> IF argv[r] = <<>> THEN "absent" ELSE "main"]
    /\ newName = [r \in Runs |-> <<>>]
    /\ image = [r \in Runs |-> NoImage]
    /\ fs \in {[l \in S |-> StaleImage] : S \in stales}
    /\ exc = [r \in Runs |-> NoExc]
    /\ stdout = [r \in Runs |-> <<>>]
    /\ exitCode = [r \in Runs |-> <<>>]
    /\ calls = [r \in Runs |-> <<>>]
    /\ net = [r \in Runs |-> <<>>]
    /\ writes = [r \in Runs |-> <<>>]

(* One invocation, every location, in a directory that may hold stale temp files *)
Init == InitWith(Alone(Locations, SampleNames), SUBSET TempLocs)
Spec == Init /\ [][Next]_vars

(* One invocation, every output name *)
InitNames == InitWith(Alone(SampleLocations, Names), {{}})
SpecNames == InitNames /\ [][Next]_vars

(* Two invocations from the same working directory *)
InitPar == InitWith(Together(ParLocations, ParNames), {{}})
SpecPar == InitPar /\ [][Next]_vars

(***************************************************************************)
(* Vocabulary of the properties.                                           *)
(***************************************************************************)
Present(r) == pc[r] # "absent"
Ended(r) == pc[r] \in {"done", "error", "exit"}
Failed(r, method) ==
    \E i \in DOMAIN net[r] : net[r][i].method = method /\ net[r][i].status # 200
Carries(args, tag, v) == \E i \in DOMAIN args : args[i][1] = tag /\ args[i][2] = v
WroteOutput(r) == \E i \in DOMAIN writes[r] : writes[r][i].what = "output"
Ran(r, f) == \E i \in DOMAIN calls[r] : calls[r][i] = f
Count(r, method) == Cardinality({i \in DOMAIN net[r] : net[r][i].method = method})
InsideProcessedImages(loc) ==
    ~loc.abs /\ Len(loc.comps) >= 2 /\ loc.comps[1] = PROCESSED_IMAGES

(* C1: when a run has ended, in success or in failure, no temporary file   *)
(* that the run wrote (temp.png, temp_no_bg.png) is still on disk.         *)
C1_TempFilesGoneAtEnd ==
    \A r \in Runs :
        Ended(r) =>
            \A i \in DOMAIN writes[r] :
                writes[r][i].what \in {"temp", "nobg"} => writes[r][i].loc \notin DOMAIN fs

(* C2: after a single run that completed successfully neither temp.png    *)
(* nor temp_no_bg.png exists on disk.                                      *)
C2_NoTempAfterSuccess ==
    \A r \in Runs : pc[r] = "done" => TempLocs \cap DOMAIN fs = {}

C2_Witness ==
    /\ pc["A"] = "done"
    /\ WroteOutput("A")
    /\ \E i \in DOMAIN writes["A"] : writes["A"][i].loc = Loc(TEMP_PNG)
    /\ \E i \in DOMAIN writes["A"] : writes["A"][i].loc = Loc(TEMP_NO_BG_PNG)

(* C3: for every output name, the final image is written only to          *)
(* processed_images/<name>.png, a location inside processed_images.       *)
C3_OutputInsideProcessedImages ==
    \A r \in Runs :
        \A i \in DOMAIN writes[r] :
            writes[r][i].what = "output" =>
                /\ newName[r] = PROCESSED_IMAGES \o SEP \o EnsurePng(argv[r][3])
                /\ InsideProcessedImages(writes[r][i].loc)

BgAborted(r) ==
    /\ pc[r] = "error"
    /\ exitCode[r] = <<1>>
    /\ exc[r].origin = "remove_background"
    /\ \E i \in DOMAIN net[r] :
         /\ net[r][i].method = "POST"
         /\ exc[r].args = <<PyStr("Error:"), PyInt(net[r][i].status), PyStr(net[r][i].text)>>
    /\ ~Ran(r, "add_white_outline")
    /\ ~Ran(r, "rename_image")
    /\ ~WroteOutput(r)

(* C4 as stated: a non-success answer of the background-removal service   *)
(* aborts the run with a BackgroundRemovalError carrying the status code  *)
(* and the body text; outline and output writer never run, no output file *)
(* is written.                                                             *)
C4_Original ==
    \A r \in Runs :
        Failed(r, "POST") => BgAborted(r) /\ exc[r].type = "BackgroundRemovalError"

(* C4: a non-success answer of the background-removal service aborts the  *)
(* run with a plain Exception whose args are 'Error:', the status code    *)
(* and the body text; outline and output writer never run and the output  *)
(* writer writes no file.                                                  *)
C4_BgFailureAborts ==
    \A r \in Runs :
        Failed(r, "POST") => BgAborted(r) /\ exc[r].type = "Exception"

C4_Witness ==
    /\ pc["A"] = "error"
    /\ exc["A"] = BgExc(403, "{\"errors\": []}")
    /\ Loc(newName["A"]) = Loc(TEMP_PNG)

(* C5: two runs from the same working directory are independent: each     *)
(* uploads and outputs its own image, ends as it would alone, and neither *)
(* reads, overwrites or deletes a file the other wrote.                    *)
C5_RunsIndependent ==
    \A r \in Runs :
        /\ \A i \in DOMAIN net[r] :
             net[r][i].method = "POST" => net[r][i].upload.src = Url(r)
        /\ \A i \in DOMAIN writes[r] :
             writes[r][i].what = "output" => writes[r][i].img.src = Url(r)
        /\ exc[r].origin \notin {"open temp.png", "os.remove"}

(* C6: main appends '.png' exactly when the name lacks it; N and N+'.png' *)
(* give the same output path; the suffix rule is idempotent.               *)
C6_SuffixRule ==
    \A r \in Runs :
        pc[r] \notin {"absent", "main", "exit"} =>
            LET n == argv[r][3] IN
            /\ EndsWith(n, PNG) => newName[r] = PathJoin(PROCESSED_IMAGES, n)
            /\ ~EndsWith(n, PNG) =>
                  /\ newName[r] = PathJoin(PROCESSED_IMAGES, n \o PNG)
                  /\ newName[r] = OutputPath(n \o PNG)
            /\ EnsurePng(EnsurePng(n)) = EnsurePng(n)
            /\ n \in {<<"g">>, <<"g">> \o PNG}
                  => newName[r] = PROCESSED_IMAGES \o SEP \o <<"g">> \o PNG

C6_Witness ==
    /\ pc["A"] = "resolve"
    /\ argv["A"][3] = <<"g">> \o PNG
    /\ newName["A"] = PROCESSED_IMAGES \o SEP \o <<"g">> \o PNG

(* C7: a location that does not start with 'http' is opened from the      *)
(* local filesystem; download_image and its HTTP GET never happen.         *)
C7_LocalNeverDownloads ==
    \A r \in Runs :
        (Present(r) /\ Len(argv[r]) = 3 /\ ~StartsWith(argv[r][2], HTTP)) =>
            /\ ~Ran(r, "download_image")
            /\ Count(r, "GET") = 0
            /\ pc[r] \notin {"main", "resolve"} => calls[r][1] = "Image.open"

C7_Witness ==
    /\ pc["A"] = "done"
    /\ argv["A"][2] = <<"h", "t", "t">>
    /\ calls["A"][1] = "Image.open"

RetrievalAborted(r) ==
    /\ pc[r] = "error"
    /\ exitCode[r] = <<1>>
    /\ exc[r].origin = "download_image"
    /\ writes[r] = <<>>
    /\ Count(r, "POST") = 0
    /\ calls[r] = <<"download_image">>
    /\ \A l \in DOMAIN fs : fs[l] = StaleImage

(* C8 as stated: a non-success HTTP GET fails with a RetrievalError whose *)
(* value carries the status code; no temporary file, no background-       *)
(* removal call, no output file.                                           *)
C8_Original ==
    \A r \in Runs :
        Failed(r, "GET") =>
            /\ RetrievalAborted(r)
            /\ exc[r].type = "RetrievalError"
            /\ Carries(exc[r].args, "int", net[r][1].status)

(* C8: a non-success HTTP GET fails with a plain Exception whose only     *)
(* argument is the message 'Image could not be retrieved' (the status     *)
(* code is not carried); no temporary file, no background-removal call,   *)
(* no output file.                                                         *)
C8_RetrievalFailureAborts ==
    \A r \in Runs :
        Failed(r, "GET") =>
            /\ RetrievalAborted(r)
            /\ exc[r].type = "Exception"
            /\ exc[r].args = <<PyStr("Image could not be retrieved")>>
            /\ ~Carries(exc[r].args, "int", net[r][1].status)

C8_Witness ==
    /\ pc["A"] = "error"
    /\ net["A"] = <<[method |-> "GET", status |-> 404, text |-> "", upload |-> NoImage]>>
    /\ exc["A"].origin = "download_image"

(* C9: with a number of positional arguments other than two, main prints  *)
(* the usage message and exits with status 1; no stage starts, no network *)
(* call, no file.                                                          *)
C9_UsageError ==
    \A r \in Runs :
        (Present(r) /\ Len(argv[r]) # 3 /\ pc[r] # "main") =>
            /\ pc[r] = "exit"
            /\ stdout[r] = <<[text |-> USAGE, arg |-> <<>>]>>
            /\ exitCode[r] = <<1>>
            /\ calls[r] = <<>>
            /\ net[r] = <<>>
            /\ writes[r] = <<>>
            /\ \A l \in DOMAIN fs : fs[l] = StaleImage

C9_Witness ==
    /\ pc["A"] = "exit"
    /\ Len(argv["A"]) = 4
    /\ exitCode["A"] = <<1>>

StageOf(f) ==
    CASE f \in {"download_image", "Image.open"} -> 1
      [] f = "convert_to_png" -> 2
      [] f = "remove_background" -> 3
      [] f = "add_white_outline" -> 4
      [] f = "rename_image" -> 5

FailedStage(origin) ==
    CASE origin \in {"download_image", "Image.open"} -> 1
      [] origin = "save temp.png" -> 2
      [] origin \in {"remove_background", "open temp.png", "save temp_no_bg.png"} -> 3
      [] origin = "add_white_outline" -> 4
      [] origin \in {"rename_image", "os.remove"} -> 5

InOrder(r) ==
    /\ \A i \in DOMAIN calls[r] : StageOf(calls[r][i]) = i
    /\ Count(r, "GET") <= 1
    /\ Count(r, "POST") <= 1
    /\ \A i \in DOMAIN net[r] :
         net[r][i].method = (IF i = 1 /\ Ran(r, "download_image") THEN "GET" ELSE "POST")
    /\ pc[r] = "error" => Len(calls[r]) = FailedStage(exc[r].origin)
    /\ pc[r] = "done" => Len(calls[r]) = 5

(* C10: the stages run in the order Source Resolver, Normalizer,          *)
(* Background Remover, Outline Synthesizer, Output Writer, each at most   *)
(* once and after its predecessor succeeded, each network call at most    *)
(* once, and after a failure no stage runs.                                *)
C10_LinearOrder ==
    /\ [](\A r \in Runs : InOrder(r))
    /\ [][\A r \in Runs :
            Ended(r) => pc'[r] = pc[r] /\ calls'[r] = calls[r] /\ net'[r] = net[r]]_vars

C10_Witness ==
    /\ pc["A"] = "done"
    /\ Len(calls["A"]) = 5
    /\ Count("A", "GET") = 1
    /\ Count("A", "POST") = 1

====
